---- MODULE Spec2Model ----
(***************************************************************************)
(* Model of app.py, the Global Superstore dashboard: load_data (cached     *)
(* CSV load plus derived columns), the sidebar filter of main, and the     *)
(* summary tables of page_executive, page_product_category and             *)
(* page_customer_shipping.                                                 *)
(*                                                                         *)
(* Representation of pandas values                                         *)
(*   - a dataframe is a sequence of records (rows, in index order);        *)
(*   - a text cell is a string, the missing text cell is "NA" (read_csv    *)
(*     turns an empty cell and the text NA into NaN);                      *)
(*   - a date, day count, year, month or boolean that may be missing is    *)
(*     <<v>> when present and <<>> when missing (NaT / NaN / pd.NA);       *)
(*   - a date is its day ordinal (days since 1970-01-01);                  *)
(*   - Sales and Profit are exact integers (currency units); float         *)
(*     rounding is not modelled;                                           *)
(*   - the result of a float division is <<"num", n, d>> (the fraction     *)
(*     n/d in lowest terms, d > 0), <<"inf", s, 0>> (s = 1 or -1) or       *)
(*     <<"nan", 0, 0>>, as IEEE-754 division produces them.                *)
(***************************************************************************)
EXTENDS Integers, Sequences, FiniteSets, TLC

VARIABLES
    csv,                \* output/superstore_clean.csv on disk: the raw rows
    cache,              \* st.cache_data entry of load_data: <<>> or <<dataframe>>
    data,               \* main: what load_data() returned in the last run
    selected_years,     \* main: the three multiselect values of the last run
    selected_regions,
    selected_segments,
    filtered,           \* main: the filtered dataframe of the last run
    executive,          \* tables and KPIs computed by page_executive
    product,            \* tables computed by page_product_category
    shipping,           \* tables and KPIs computed by page_customer_shipping
    df,                 \* load_data: the dataframe under derivation
    passes              \* number of times the derivation steps ran on df

vars == <<csv, cache, data, selected_years, selected_regions, selected_segments,
          filtered, executive, product, shipping, df, passes>>

-----------------------------------------------------------------------------
(* Bounds of the model *)

MaxRows == 2            \* rows of a generated csv file
MaxShipSpan == 9        \* ShipDate ranges over FirstDate-1 .. FirstDate+MaxShipSpan
MaxProducts == 24       \* products of a generated catalogue file
MaxPasses == 2          \* derivation passes over one dataframe

-----------------------------------------------------------------------------
(* Missing values *)

NA == "NA"
None == <<>>
Some(v) == <<v>>
isna(x) == x = None
Val(x) == x[1]

(* Float values *)
NaN == <<"nan", 0, 0>>
Inf(s) == <<"inf", s, 0>>
Abs(n) == IF n < 0 THEN -n ELSE n

RECURSIVE Gcd(_, _)
Gcd(a, b) == IF b = 0 THEN a ELSE Gcd(b, a % b)

Reduced(n, d, g) == <<"num", n \div g, d \div g>>
\* the fraction n/d (d # 0) in lowest terms with a positive denominator
Num(n, d) ==
    IF d < 0 THEN Reduced(-n, -d, Gcd(Abs(n), Abs(d)))
    ELSE Reduced(n, d, Gcd(Abs(n), Abs(d)))

-----------------------------------------------------------------------------
(* Calendar: pandas .dt.year / .dt.month of a day ordinal *)

\* days_from_civil / civil_from_days of the proleptic Gregorian calendar,
\* each step taking the values of the steps before it as parameters
DaysOfEra(era, yoe, doy) ==
    era * 146097 + yoe * 365 + yoe \div 4 - yoe \div 100 + doy - 719468
DaysOfYear(yy, mp, d) ==
    DaysOfEra(yy \div 400, yy % 400, (153 * mp + 2) \div 5 + d - 1)
DaysFromCivil(y, m, d) ==
    DaysOfYear(IF m <= 2 THEN y - 1 ELSE y, IF m > 2 THEN m - 3 ELSE m + 9, d)

CivilOfMonth(y, m, d) == [year |-> IF m <= 2 THEN y + 1 ELSE y, month |-> m, day |-> d]
CivilOfMp(y, doy, mp) ==
    CivilOfMonth(y, IF mp < 10 THEN mp + 3 ELSE mp - 9, doy - (153 * mp + 2) \div 5 + 1)
CivilOfDoy(y, doy) == CivilOfMp(y, doy, (5 * doy + 2) \div 153)
CivilOfYoe(era, doe, yoe) ==
    CivilOfDoy(yoe + era * 400, doe - (365 * yoe + yoe \div 4 - yoe \div 100))
CivilOfDoe(era, doe) ==
    CivilOfYoe(era, doe,
               (doe - doe \div 1460 + doe \div 36524 - doe \div 146096) \div 365)
CivilOfEra(zz, era) == CivilOfDoe(era, zz - era * 146097)
CivilOfShifted(zz) == CivilOfEra(zz, zz \div 146097)
CivilFromDays(z) == CivilOfShifted(z + 719468)

-----------------------------------------------------------------------------
(* Dataframe helpers *)

SetCol(r, name, v) ==
    [f \in (DOMAIN r) \cup {name} |-> IF f = name THEN v ELSE r[f]]


-----------------------------------------------------------------------------
(* load_data: the derivation steps *)

\* df["X"] = df["OrderDate"].dt.year / .dt.month / .dt.to_period("M").astype(str)
dt_year(date)  == IF isna(date) THEN None ELSE Some(CivilFromDays(Val(date)).year)
dt_month(date) == IF isna(date) THEN None ELSE Some(CivilFromDays(Val(date)).month)
YearMonthOf(civil) == <<civil.year, civil.month>>
year_month(date) == IF isna(date) THEN <<>> ELSE YearMonthOf(CivilFromDays(Val(date)))

\* a / b on float columns and numpy scalars: never raises
Divide(a, b) ==
    IF b = 0 THEN (IF a = 0 THEN NaN ELSE IF a > 0 THEN Inf(1) ELSE Inf(-1))
    ELSE Num(a, b)

\* (df["ShipDate"] - df["OrderDate"]).dt.days
shipping_days(ship, order) ==
    IF isna(ship) \/ isna(order) THEN None ELSE Some(Val(ship) - Val(order))

FirstClassLimit == 2
SecondClassLimit == 4
StandardClassLimit == 7
DefaultLimit == 5

IsLateFor(days, mode) ==
    IF isna(days) THEN None
    ELSE IF mode = "First Class" THEN Some(Val(days) > FirstClassLimit)
    ELSE IF mode = "Second Class" THEN Some(Val(days) > SecondClassLimit)
    ELSE IF mode = "Standard Class" THEN Some(Val(days) > StandardClassLimit)
    ELSE Some(Val(days) > DefaultLimit)

\* is_late_delivery without its "Standard Class" branch
is_late_delivery_no_standard(row) ==
    IsLateFor(row.ShippingDays,
              IF row.ShipMode = "Standard Class" THEN "Same Day" ELSE row.ShipMode)

is_late_delivery(row) == IsLateFor(row.ShippingDays, row.ShipMode)

profit_margin(row) == Divide(row.Profit, row.Sales)

\* the column assignments of lines 21-45, in order; each reads the frame as
\* the assignments before it left it
SetOrderYear(row)      == SetCol(row, "OrderYear", dt_year(row.OrderDate))
SetOrderMonth(row)     == SetCol(row, "OrderMonth", dt_month(row.OrderDate))
SetOrderYearMonth(row) == SetCol(row, "OrderYearMonth", year_month(row.OrderDate))
SetProfitMargin(row)   == SetCol(row, "ProfitMargin", profit_margin(row))
\* the day count assigned to the ShipDate column as well
SetShippingDaysInPlace(row) ==
    SetCol(SetCol(row, "ShippingDays", shipping_days(row.ShipDate, row.OrderDate)),
           "ShipDate", shipping_days(row.ShipDate, row.OrderDate))
SetShippingDays(row) ==
    SetCol(row, "ShippingDays", shipping_days(row.ShipDate, row.OrderDate))
SetIsLate(row)         == SetCol(row, "IsLate", is_late_delivery(row))

EnrichRow(row) ==
    SetIsLate(SetShippingDays(SetProfitMargin(
        SetOrderYearMonth(SetOrderMonth(SetOrderYear(row))))))

EnrichSteps(frame) == [i \in 1..Len(frame) |-> EnrichRow(frame[i])]

\* pd.read_csv(file_path, parse_dates=[...]): the rows of the file, in order
read_csv(file) == file

-----------------------------------------------------------------------------
(* Text values of the model, in lexicographic order; Rank gives the order  *)
(* that sorted() and the sorted group keys of groupby use.                 *)

Pad(i) == IF i < 10 THEN "0" \o ToString(i) ELSE ToString(i)
Code(prefix, i) == prefix \o Pad(i)
Codes(prefix, n) == [i \in 1..n |-> Code(prefix, i)]
NumSubs == 12

Texts ==
    Codes("C", 2)
    \o <<"Chairs", "Consumer", "Corporate", "East", "First Class", "Furniture">>
    \o Codes("Item ", MaxProducts + 1) \o Codes("Name ", 2)
    \o Codes("O", MaxProducts + 1) \o Codes("P", MaxProducts + 1) \o <<"Phones">>
    \o Codes("S", NumSubs)
    \o <<"Same Day", "Second Class", "Standard Class", "Technology", "West">>

Rank == [t \in {Texts[i] : i \in 1..Len(Texts)} |->
            CHOOSE i \in 1..Len(Texts) : Texts[i] = t]

\* lexicographic order on tuples of text values
RECURSIVE KeyLess(_, _)
KeyLess(a, b) ==
    IF a = <<>> \/ b = <<>> THEN FALSE
    ELSE IF Head(a) # Head(b) THEN Rank[Head(a)] < Rank[Head(b)]
    ELSE KeyLess(Tail(a), Tail(b))

\* the members of a set of key tuples, in increasing order
KeyAt(S, p) == CHOOSE k \in S : Cardinality({x \in S : KeyLess(x, k)}) = p - 1
SortedKeys(S) == [p \in 1..Cardinality(S) |-> KeyAt(S, p)]

-----------------------------------------------------------------------------
(* groupby / agg / sort_values / head / merge *)

KeyOf(row, keys) == [i \in 1..Len(keys) |-> row[keys[i]]]
HasNA(key) == \E i \in 1..Len(key) : key[i] = NA

\* the group keys of frame.groupby(keys): sorted, rows with a missing key dropped
GroupKeys(frame, keys) ==
    SortedKeys({k \in {KeyOf(frame[i], keys) : i \in 1..Len(frame)} : ~HasNA(k)})

GroupRows(frame, keys, k) == SelectSeq(frame, LAMBDA r : KeyOf(r, keys) = k)

\* Series.sum() of an integer-valued column
RECURSIVE SumTo(_, _, _)
SumTo(frame, col, n) == IF n = 0 THEN 0 ELSE frame[n][col] + SumTo(frame, col, n - 1)
Sum(frame, col) == SumTo(frame, col, Len(frame))

\* Series.nunique(): distinct values, missing ones not counted
NUnique(frame, col) ==
    Cardinality({frame[i][col] : i \in 1..Len(frame)} \ {NA})

\* Series.mean() of a column of optional integers: missing values skipped
RECURSIVE SumValTo(_, _, _)
SumValTo(frame, col, n) ==
    IF n = 0 THEN 0 ELSE Val(frame[n][col]) + SumValTo(frame, col, n - 1)
MeanOfPresent(present, col) ==
    IF present = <<>> THEN NaN ELSE Num(SumValTo(present, col, Len(present)), Len(present))
\* frame.dropna(subset=[col]) for an optional column
DropNA(frame, col) == SelectSeq(frame, LAMBDA r : ~isna(r[col]))
Mean(frame, col) == MeanOfPresent(DropNA(frame, col), col)

\* Series.max() of a column of optional dates: missing values skipped
MaxOf(S) == IF S = {} THEN None ELSE Some(CHOOSE x \in S : \A y \in S : y <= x)
Max(frame, col) ==
    MaxOf({Val(frame[i][col]) : i \in {j \in 1..Len(frame) : ~isna(frame[j][col])}})

\* mean of a boolean column without missing values
BoolMean(frame, col) ==
    IF frame = <<>> THEN NaN
    ELSE Num(Len(SelectSeq(frame, LAMBDA r : Val(r[col]))), Len(frame))

\* table.sort_values(col): sign = 1 ascending, -1 descending; rows with equal
\* values keep their order.  SortedIndex is the row that lands at place p.
Before(table, col, sign, i, j) ==
    \/ sign * table[i][col] < sign * table[j][col]
    \/ (table[i][col] = table[j][col] /\ i < j)
SortedIndex(table, col, sign, p) ==
    CHOOSE j \in 1..Len(table) :
        Cardinality({i \in 1..Len(table) : Before(table, col, sign, i, j)}) = p - 1
sort_values(table, col, sign) ==
    [p \in 1..Len(table) |-> table[SortedIndex(table, col, sign, p)]]

head(table, n) == SubSeq(table, 1, IF Len(table) < n THEN Len(table) ELSE n)

-----------------------------------------------------------------------------
(* page_executive *)

\* groupby(keys).agg(Sales=sum, Profit=sum).reset_index() plus the ProfitMargin column
SalesProfitOf(k, g) ==
    [key |-> k, Sales |-> Sum(g, "Sales"), Profit |-> Sum(g, "Profit"),
     ProfitMargin |-> Divide(Sum(g, "Profit"), Sum(g, "Sales"))]
SalesProfitTable(frame, keys, ks) ==
    [i \in 1..Len(ks) |-> SalesProfitOf(ks[i], GroupRows(frame, keys, ks[i]))]
SalesProfitSummary(frame, keys) == SalesProfitTable(frame, keys, GroupKeys(frame, keys))

\* the "YYYY-MM" labels in string order; "NaT" (a missing OrderDate) sorts last
MonthLess(a, b) ==
    IF a = <<>> THEN FALSE
    ELSE IF b = <<>> THEN TRUE
    ELSE a[1] < b[1] \/ (a[1] = b[1] /\ a[2] < b[2])
MonthAt(S, p) == CHOOSE k \in S : Cardinality({x \in S : MonthLess(x, k)}) = p - 1
SortedMonths(S) == [p \in 1..Cardinality(S) |-> MonthAt(S, p)]

MonthOf(label, g) ==
    [OrderYearMonth |-> label, MonthlySales |-> Sum(g, "Sales"),
     MonthlyProfit |-> Sum(g, "Profit")]
MonthTable(frame, ks) ==
    [i \in 1..Len(ks) |->
        MonthOf(ks[i], SelectSeq(frame, LAMBDA r : r.OrderYearMonth = ks[i]))]
monthly(frame) ==
    MonthTable(frame, SortedMonths({frame[i].OrderYearMonth : i \in 1..Len(frame)}))

region_summary(frame) == SalesProfitSummary(frame, <<"Region">>)

overall_margin(total_profit, total_sales) == Divide(total_profit, total_sales)

page_executive(frame) ==
    [total_sales    |-> Sum(frame, "Sales"),
     total_profit   |-> Sum(frame, "Profit"),
     overall_margin |-> overall_margin(Sum(frame, "Profit"), Sum(frame, "Sales")),
     total_orders   |-> NUnique(frame, "OrderID"),
     monthly        |-> monthly(frame),
     region_summary |-> region_summary(frame)]

-----------------------------------------------------------------------------
(* page_product_category *)

TopSubN == 10
TopUnprofitableN == 20

cat_sub(frame) == SalesProfitSummary(frame, <<"Category", "SubCategory">>)

\* groupby(keys).agg(TotalProfit=sum).reset_index().sort_values(descending)
ProfitTable(frame, keys, ks) ==
    [i \in 1..Len(ks) |->
        [key |-> ks[i], TotalProfit |-> Sum(GroupRows(frame, keys, ks[i]), "Profit")]]
ProfitRanking(frame, keys) ==
    sort_values(ProfitTable(frame, keys, GroupKeys(frame, keys)), "TotalProfit", -1)

cat_profit(frame) == ProfitRanking(frame, <<"Category">>)
\* the ranking sorted without ascending=False
sub_profit_ascending(frame) ==
    sort_values(ProfitTable(frame, <<"SubCategory">>, GroupKeys(frame, <<"SubCategory">>)),
                "TotalProfit", 1)
sub_profit(frame) == ProfitRanking(frame, <<"SubCategory">>)
top_sub(ranking) == head(ranking, TopSubN)

\* pivot_table(index=Category, columns=Region, values=Profit, aggfunc=sum):
\* a cell without rows is missing
PivotCells(frame, ks) ==
    [k \in {ks[i] : i \in 1..Len(ks)} |->
        Sum(GroupRows(frame, <<"Category", "Region">>, k), "Profit")]
pivot(frame) == PivotCells(frame, GroupKeys(frame, <<"Category", "Region">>))

product_perf(frame) ==
    SalesProfitSummary(frame, <<"ProductID", "ProductName", "Category", "SubCategory">>)

\* product_perf["Profit"] <= 0
IsNotProfitable(row) == row.Profit <= 0

\* product_perf["Profit"] < 0
IsUnprofitable(row) == row.Profit < 0

csv_unprofitable(perf) ==
    sort_values(SelectSeq(perf, IsUnprofitable), "Profit", 1)

unprofitable(perf) ==
    head(sort_values(SelectSeq(perf, IsUnprofitable), "Profit", 1), TopUnprofitableN)

ProductTables(frame, ranking, perf) ==
    [cat_sub          |-> cat_sub(frame),
     cat_profit       |-> cat_profit(frame),
     sub_profit       |-> ranking,
     top_sub          |-> top_sub(ranking),
     pivot            |-> pivot(frame),
     product_perf     |-> perf,
     unprofitable     |-> unprofitable(perf),
     csv_unprofitable |-> csv_unprofitable(perf)]

page_product_category(frame) ==
    ProductTables(frame, sub_profit(frame), product_perf(frame))

-----------------------------------------------------------------------------
(* page_customer_shipping *)

TopCustomersN == 10

CustomerOf(k, g) ==
    [key |-> k,
     TotalSales |-> Sum(g, "Sales"),
     TotalProfit |-> Sum(g, "Profit"),
     NumOrders |-> NUnique(g, "OrderID"),
     LastOrderDate |-> Max(g, "OrderDate"),
     ProfitMargin |-> Divide(Sum(g, "Profit"), Sum(g, "Sales"))]
CustomerTable(frame, keys, ks) ==
    [i \in 1..Len(ks) |-> CustomerOf(ks[i], GroupRows(frame, keys, ks[i]))]
CustomerSummary(frame, keys) == CustomerTable(frame, keys, GroupKeys(frame, keys))
customer_perf(frame) == CustomerSummary(frame, <<"CustomerID", "CustomerName", "Segment">>)

top_customers(perf) == head(sort_values(perf, "TotalSales", -1), TopCustomersN)

SegmentOf(k, g) ==
    [key |-> k,
     Sales |-> Sum(g, "Sales"),
     Profit |-> Sum(g, "Profit"),
     Orders |-> NUnique(g, "OrderID"),
     Customers |-> NUnique(g, "CustomerID"),
     ProfitMargin |-> Divide(Sum(g, "Profit"), Sum(g, "Sales"))]
SegmentTable(frame, ks) ==
    [i \in 1..Len(ks) |-> SegmentOf(ks[i], GroupRows(frame, <<"Segment">>, ks[i]))]
segment_summary(frame) == SegmentTable(frame, GroupKeys(frame, <<"Segment">>))

\* data["IsLate"].dropna().mean()
late_rate(frame) == BoolMean(DropNA(frame, "IsLate"), "IsLate")

\* dropna(subset=["IsLate"]).groupby("ShipMode")["IsLate"].mean(): mode -> LateRate
LateTable(known, ks) ==
    [k \in {ks[i] : i \in 1..Len(ks)} |->
        BoolMean(GroupRows(known, <<"ShipMode">>, k), "IsLate")]
LateByMode(known) == LateTable(known, GroupKeys(known, <<"ShipMode">>))
\* fillna(False) in place of dropna: a missing IsLate counted as not late
FillNotLate(frame) ==
    [i \in 1..Len(frame) |->
        IF isna(frame[i].IsLate) THEN [frame[i] EXCEPT !.IsLate = Some(FALSE)]
        ELSE frame[i]]
late_by_mode_fillna(frame) == LateByMode(FillNotLate(frame))
late_by_mode(frame) == LateByMode(DropNA(frame, "IsLate"))

\* left.merge(right, on="ShipMode", how="left")
MergeLeft(left, right) ==
    [i \in 1..Len(left) |->
        SetCol(left[i], "LateRate",
               IF left[i].key \in DOMAIN right THEN right[left[i].key] ELSE NaN)]

ShipModeOf(k, g) ==
    [key |-> k, AvgShippingDays |-> Mean(g, "ShippingDays"),
     Orders |-> NUnique(g, "OrderID")]
ShipModeTable(frame, ks) ==
    [i \in 1..Len(ks) |-> ShipModeOf(ks[i], GroupRows(frame, <<"ShipMode">>, ks[i]))]
shipmode_summary(frame) ==
    MergeLeft(ShipModeTable(frame, GroupKeys(frame, <<"ShipMode">>)), late_by_mode(frame))

ShippingTables(frame, perf) ==
    [customer_perf     |-> perf,
     top_customers     |-> top_customers(perf),
     segment_summary   |-> segment_summary(frame),
     avg_shipping_days |-> Mean(frame, "ShippingDays"),
     late_rate         |-> late_rate(frame),
     shipmode_summary  |-> shipmode_summary(frame)]

page_customer_shipping(frame) == ShippingTables(frame, customer_perf(frame))

-----------------------------------------------------------------------------
(* main *)

\* load_data without @st.cache_data: the body runs in every run
load_data_uncached(entry, file) == EnrichSteps(read_csv(file))

\* @st.cache_data around load_data: the body runs on a cache miss only
load_data(entry, file) ==
    IF entry = <<>> THEN EnrichSteps(read_csv(file)) ELSE entry[1]

\* sorted(data["OrderYear"].unique()): a missing year is one of the values
year_options(frame) == {frame[i].OrderYear : i \in 1..Len(frame)}
\* sorted(data[col].dropna().unique())
text_options(frame, col) == {frame[i][col] : i \in 1..Len(frame)} \ {NA}
region_options(frame) == text_options(frame, "Region")
segment_options(frame) == text_options(frame, "Segment")

\* Series.isin(values): a missing value matches a missing value in values
isin(v, values) == v \in values

apply_filters(frame, years, regions, segments) ==
    SelectSeq(frame, LAMBDA r : /\ isin(r.OrderYear, years)
                                /\ isin(r.Region, regions)
                                /\ isin(r.Segment, segments))

\* One run of the script: load (through the cache), the user's selections
\* (any subset of the options offered; all of them by default), the filter
\* and the three pages.
Main ==
    \E loaded \in {load_data(cache, csv)} :
        \E years \in SUBSET year_options(loaded),
           regions \in SUBSET region_options(loaded),
           segments \in SUBSET segment_options(loaded) :
            \E view \in {apply_filters(loaded, years, regions, segments)} :
                /\ cache' = <<loaded>>
                /\ data' = loaded
                /\ selected_years' = years
                /\ selected_regions' = regions
                /\ selected_segments' = segments
                /\ filtered' = view
                /\ executive' = page_executive(view)
                /\ product' = page_product_category(view)
                /\ shipping' = page_customer_shipping(view)
                /\ UNCHANGED <<csv, df, passes>>

\* The environment rewrites the file on disk while the process runs:
\* the file is cut down to its first row.
FileChange ==
    /\ Len(csv) > 1
    /\ csv' = <<csv[1]>>
    /\ UNCHANGED <<cache, data, selected_years, selected_regions, selected_segments,
                   filtered, executive, product, shipping, df, passes>>

\* The derivation steps of load_data (lines 21-45) run once more over df.
EnrichPass ==
    /\ passes < MaxPasses
    /\ df' = EnrichSteps(df)
    /\ passes' = passes + 1
    /\ UNCHANGED <<csv, cache, data, selected_years, selected_regions,
                   selected_segments, filtered, executive, product, shipping>>

-----------------------------------------------------------------------------
(* The files the model is run on *)

FirstDate == DaysFromCivil(2014, 12, 28)
NextYearDate == DaysFromCivil(2015, 1, 1)

SalesValues == {0, 1}
ProfitValues == {-1, 0, 1}
ShipModes == {"First Class", "Second Class", "Standard Class", "Same Day", NA}

BaseRow ==
    [OrderID |-> Code("O", 1), OrderDate |-> Some(FirstDate),
     ShipDate |-> Some(FirstDate + 3), Sales |-> 1, Profit |-> 1,
     CustomerID |-> Code("C", 1), CustomerName |-> Code("Name ", 1),
     Segment |-> "Consumer", ProductID |-> Code("P", 1),
     ProductName |-> Code("Item ", 1), Category |-> "Furniture",
     SubCategory |-> "Chairs", Region |-> "East", ShipMode |-> "Standard Class"]

\* every file of 1 .. MaxRows rows over a set of rows
Files(rows) == UNION {[1..n -> rows] : n \in 1..MaxRows}

\* rows for the derivation: every date / ship mode combination, every amount
DateRows ==
    {[BaseRow EXCEPT !.OrderDate = o, !.ShipDate = s, !.ShipMode = m] :
        o \in {None, Some(FirstDate), Some(NextYearDate)},
        s \in {None} \cup {Some(d) : d \in (FirstDate - 1)..(FirstDate + MaxShipSpan)},
        m \in ShipModes}
AmountRows ==
    {[BaseRow EXCEPT !.Sales = s, !.Profit = p] : s \in SalesValues, p \in ProfitValues}

\* a file of n rows that differ in OrderID, one of them replaced by row r
Placed(n, p, r) ==
    [i \in 1..n |-> IF i = p THEN r ELSE [BaseRow EXCEPT !.OrderID = Code("O", i + 1)]]
EnrichFiles ==
    {Placed(n, p, r) : n \in 1..MaxRows, p \in 1..MaxRows, r \in DateRows \cup AmountRows}

\* rows for the filter: the base row and the rows that differ from it in one
\* filtered column, by another value or by a missing one
FilterRows ==
    {BaseRow}
    \cup {[BaseRow EXCEPT !.OrderDate = o] : o \in {None, Some(NextYearDate)}}
    \cup {[BaseRow EXCEPT !.Region = r] : r \in {"West", NA}}
    \cup {[BaseRow EXCEPT !.Segment = g] : g \in {"Corporate", NA}}

\* rows for the sums and ratios: one key changed from BaseRow, every amount
KeyRows ==
    {BaseRow,
     [BaseRow EXCEPT !.Region = "West"],
     [BaseRow EXCEPT !.Segment = "Corporate", !.CustomerID = Code("C", 2),
                     !.CustomerName = Code("Name ", 2)],
     [BaseRow EXCEPT !.Category = "Technology", !.SubCategory = "Phones",
                     !.ProductID = Code("P", 2), !.ProductName = Code("Item ", 2)],
     [BaseRow EXCEPT !.Category = NA],
     [BaseRow EXCEPT !.SubCategory = NA]}
AggRows ==
    {[k EXCEPT !.Sales = s, !.Profit = p] :
        k \in KeyRows, s \in SalesValues, p \in ProfitValues}

\* rows for the shipping summary: ship mode, shipping time and order vary
ShipRows ==
    {[BaseRow EXCEPT !.ShipMode = m, !.ShipDate = s, !.OrderID = o] :
        m \in {"First Class", "Same Day", NA},
        s \in {None, Some(FirstDate + 3), Some(FirstDate + 6)},
        o \in {Code("O", 1), Code("O", 2)}}

\* a catalogue of n products over NumSubs subcategories, one row each, with
\* profits ((a*i + b) mod 7) - c; with extra, the first half of the products
\* has a second row of profit 1; with gap, the first row has no SubCategory
CatalogueRow(i, profit, order) ==
    [BaseRow EXCEPT !.ProductID = Code("P", i), !.ProductName = Code("Item ", i),
                    !.SubCategory = Code("S", ((i - 1) % NumSubs) + 1),
                    !.Profit = profit, !.OrderID = Code("O", order)]
Catalogue(n, a, b, c, extra, gap) ==
    [i \in 1..n |->
        IF gap /\ i = 1
        THEN [CatalogueRow(i, ((a * i + b) % 7) - c, i) EXCEPT !.SubCategory = NA]
        ELSE CatalogueRow(i, ((a * i + b) % 7) - c, i)]
    \o (IF extra THEN [j \in 1..(n \div 2) |-> CatalogueRow(j, 1, j)] ELSE <<>>)
CatalogueFiles ==
    {Catalogue(n, a, b, c, extra, gap) :
        n \in 1..MaxProducts, a \in {1, 3}, b \in {0, 2}, c \in {3, 6},
        extra \in BOOLEAN, gap \in BOOLEAN}

-----------------------------------------------------------------------------
(* Specifications *)

\* the process starts: nothing cached, no run yet
Start(files) ==
    /\ csv \in files
    /\ cache = <<>>
    /\ data = <<>>
    /\ selected_years = {}
    /\ selected_regions = {}
    /\ selected_segments = {}
    /\ filtered = <<>>
    /\ executive = <<>>
    /\ product = <<>>
    /\ shipping = <<>>
    /\ df = <<>>
    /\ passes = 0

Next == Main \/ FileChange

InitFilter == Start(Files(FilterRows))
SpecFilter == InitFilter /\ [][Next]_vars

InitAgg == Start(Files(AggRows))
SpecAgg == InitAgg /\ [][Next]_vars

InitShip == Start(Files(ShipRows))
SpecShip == InitShip /\ [][Next]_vars

InitCatalogue == Start(CatalogueFiles)
SpecCatalogue == InitCatalogue /\ [][Next]_vars

\* load_data alone: df is the frame read from the file, then derived
InitEnrich ==
    /\ csv \in EnrichFiles
    /\ df = read_csv(csv)
    /\ passes = 0
    /\ cache = <<>>
    /\ data = <<>>
    /\ selected_years = {}
    /\ selected_regions = {}
    /\ selected_segments = {}
    /\ filtered = <<>>
    /\ executive = <<>>
    /\ product = <<>>
    /\ shipping = <<>>

NextEnrich == EnrichPass
SpecEnrich == InitEnrich /\ [][NextEnrich]_vars

-----------------------------------------------------------------------------
(* Claims about load_data, checked under SpecEnrich *)

Derived == passes >= 1
Rows(frame) == 1..Len(frame)

\* the late-delivery limit the claim states for a ship mode
ClaimedLimit(mode) ==
    CASE mode = "First Class" -> 2
      [] mode = "Second Class" -> 4
      [] mode = "Standard Class" -> 7
      [] OTHER -> 5

\* C1: in every row load_data produces, IsLate is undefined exactly when
\* ShippingDays is undefined, which is exactly when OrderDate or ShipDate is
\* missing; otherwise ShippingDays = ShipDate - OrderDate and IsLate says
\* whether ShippingDays exceeds 2 (First Class), 4 (Second Class),
\* 7 (Standard Class) or 5 (any other ship mode, "Same Day" or a missing one).
C1_IsLateRule ==
    Derived =>
        \A i \in Rows(df) :
            /\ isna(df[i].IsLate) <=> isna(df[i].ShippingDays)
            /\ isna(df[i].ShippingDays) <=> (isna(csv[i].OrderDate) \/ isna(csv[i].ShipDate))
            /\ ~isna(df[i].ShippingDays) =>
                /\ Val(df[i].ShippingDays) = Val(csv[i].ShipDate) - Val(csv[i].OrderDate)
                /\ Val(df[i].IsLate) =
                      (Val(df[i].ShippingDays) > ClaimedLimit(csv[i].ShipMode))

\* C1 witness: a derived "Same Day" row shipped after 6 days is late (the
\* default limit of 5 applies to it)
C1_Witness ==
    /\ Derived
    /\ \E i \in Rows(df) :
          /\ df[i].ShipMode = "Same Day"
          /\ df[i].ShippingDays = Some(6)
          /\ df[i].IsLate = Some(TRUE)

\* C2 as stated: ProfitMargin is undefined whenever Sales = 0, whatever the
\* Profit, and is Profit/Sales whenever Sales is not 0.
C2_ProfitMarginUndefinedOnZeroSales ==
    Derived =>
        \A i \in Rows(df) :
            /\ csv[i].Sales = 0 => df[i].ProfitMargin = NaN
            /\ csv[i].Sales # 0 =>
                /\ df[i].ProfitMargin[1] = "num"
                /\ df[i].ProfitMargin[2] * csv[i].Sales
                      = csv[i].Profit * df[i].ProfitMargin[3]

BaseColumnsKept ==
    /\ Len(df) = Len(csv)
    /\ \A i \in Rows(df) : \A f \in DOMAIN csv[i] : df[i][f] = csv[i][f]

\* C8: running the derivation steps over a frame that already carries the
\* derived columns leaves the frame as it was, and the frame keeps the rows of
\* the file in their order with the base columns unaltered.
C8_EnrichIdempotent ==
    /\ [][Derived => df' = df]_vars
    /\ [](Derived => BaseColumnsKept)

\* C8 witness: the steps ran twice over a frame of two rows, one of them
\* without a ShipDate
C8_Witness ==
    /\ passes = 2
    /\ Len(df) = 2
    /\ \E i \in Rows(df) : isna(df[i].IsLate)

-----------------------------------------------------------------------------
(* Claims about main and the pages, checked under SpecFilter, SpecAgg,     *)
(* SpecShip and SpecCatalogue                                              *)

Ran == data # <<>>

\* C3 as stated: with every option selected the filter keeps every row of the
\* enriched dataset, and with nothing selected in a dimension it keeps none.
C3_FilterDefaultsKeepAll ==
    Ran =>
        /\ (/\ selected_years = year_options(data)
            /\ selected_regions = region_options(data)
            /\ selected_segments = segment_options(data))
              => Len(filtered) = Len(data)
        /\ (selected_years = {} \/ selected_regions = {} \/ selected_segments = {})
              => Len(filtered) = 0

ZeroSalesUndefined(table, sales) ==
    \A i \in Rows(table) : table[i][sales] = 0 => table[i].ProfitMargin = NaN

\* C4 as stated: every ratio of summed values with a zero denominator is the
\* undefined marker (never zero, never infinite).
C4_RatiosUndefinedOnZeroDenominator ==
    Ran =>
        /\ executive.total_sales = 0 => executive.overall_margin = NaN
        /\ ZeroSalesUndefined(executive.region_summary, "Sales")
        /\ ZeroSalesUndefined(product.cat_sub, "Sales")
        /\ ZeroSalesUndefined(product.product_perf, "Sales")
        /\ ZeroSalesUndefined(shipping.customer_perf, "TotalSales")
        /\ ZeroSalesUndefined(shipping.segment_summary, "Sales")
        /\ (\A i \in Rows(filtered) : isna(filtered[i].IsLate))
              => shipping.late_rate = NaN

\* C5 as stated: the per-group Sales of region_summary, of cat_sub and of
\* segment_summary each add up to the Sales of the filtered rows.
C5_GroupedSalesConserved ==
    Ran =>
        /\ Sum(executive.region_summary, "Sales") = Sum(filtered, "Sales")
        /\ Sum(product.cat_sub, "Sales") = Sum(filtered, "Sales")
        /\ Sum(shipping.segment_summary, "Sales") = Sum(filtered, "Sales")

\* rows of the filtered data in a ship mode, and those with IsLate defined / true
ModeRows(mode) == {i \in Rows(filtered) : filtered[i].ShipMode = mode}
ModeKnown(mode) == {i \in ModeRows(mode) : ~isna(filtered[i].IsLate)}
ModeLate(mode) == {i \in ModeKnown(mode) : Val(filtered[i].IsLate)}

\* C10: shipmode_summary has one row for each ship mode present in the
\* filtered data; its LateRate is (rows of the mode with IsLate true) /
\* (rows of the mode with IsLate defined), and is undefined for a mode none
\* of whose rows has IsLate defined.
C10_LateRateByMode ==
    Ran =>
        /\ {shipping.shipmode_summary[i].key[1] : i \in Rows(shipping.shipmode_summary)}
              = {filtered[i].ShipMode : i \in Rows(filtered)} \ {NA}
        /\ \A i, j \in Rows(shipping.shipmode_summary) :
              shipping.shipmode_summary[i].key = shipping.shipmode_summary[j].key => i = j
        /\ \A i \in Rows(shipping.shipmode_summary) :
              IF ModeKnown(shipping.shipmode_summary[i].key[1]) = {}
              THEN shipping.shipmode_summary[i].LateRate = NaN
              ELSE /\ shipping.shipmode_summary[i].LateRate[1] = "num"
                   /\ shipping.shipmode_summary[i].LateRate[2]
                         * Cardinality(ModeKnown(shipping.shipmode_summary[i].key[1]))
                      = shipping.shipmode_summary[i].LateRate[3]
                         * Cardinality(ModeLate(shipping.shipmode_summary[i].key[1]))

\* C10 witness: a mode with one late row and one row of undefined IsLate has
\* LateRate 1
C10_Witness ==
    /\ Ran
    /\ \E i \in Rows(shipping.shipmode_summary) :
          /\ shipping.shipmode_summary[i].LateRate = <<"num", 1, 1>>
          /\ Cardinality(ModeRows(shipping.shipmode_summary[i].key[1])) = 2
          /\ Cardinality(ModeKnown(shipping.shipmode_summary[i].key[1])) = 1

ProductKeys == <<"ProductID", "ProductName", "Category", "SubCategory">>
\* the product groups of the filtered data and their summed Profit
ProductGroups ==
    {k \in {KeyOf(filtered[i], ProductKeys) : i \in Rows(filtered)} : ~HasNA(k)}
GroupProfit(keys, k) ==
    Sum(SelectSeq(filtered, LAMBDA r : KeyOf(r, keys) = k), "Profit")
Smaller(a, b) == IF a < b THEN a ELSE b

\* C6: the exported table holds exactly the product groups whose summed
\* Profit is below 0 (a group of summed Profit 0 is left out), once each, in
\* ascending order of summed Profit, and the displayed table is its first
\* min(20, n) rows.
C6_UnprofitableProducts ==
    Ran =>
        /\ {product.csv_unprofitable[i].key : i \in Rows(product.csv_unprofitable)}
              = {k \in ProductGroups : GroupProfit(ProductKeys, k) < 0}
        /\ \A i, j \in Rows(product.csv_unprofitable) :
              /\ product.csv_unprofitable[i].key = product.csv_unprofitable[j].key => i = j
              /\ i < j => product.csv_unprofitable[i].Profit
                             <= product.csv_unprofitable[j].Profit
        /\ \A i \in Rows(product.csv_unprofitable) :
              product.csv_unprofitable[i].Profit
                 = GroupProfit(ProductKeys, product.csv_unprofitable[i].key)
        /\ product.unprofitable
              = SubSeq(product.csv_unprofitable, 1,
                       Smaller(20, Len(product.csv_unprofitable)))

\* C6 witness: more than 20 unprofitable products, 20 of them displayed, and
\* a product of summed Profit 0 in the filtered data
C6_Witness ==
    /\ Ran
    /\ Len(product.csv_unprofitable) > 20
    /\ Len(product.unprofitable) = 20
    /\ \E k \in ProductGroups : GroupProfit(ProductKeys, k) = 0

SubCategories == {filtered[i].SubCategory : i \in Rows(filtered)} \ {NA}

\* C7: sub_profit has one row per SubCategory of the filtered data with its
\* summed Profit, in non-increasing order; top_sub is its first min(10, k)
\* rows, so no subcategory outside top_sub has more Profit than one inside.
C7_TopSubcategories ==
    Ran =>
        /\ {product.sub_profit[i].key[1] : i \in Rows(product.sub_profit)} = SubCategories
        /\ Len(product.sub_profit) = Cardinality(SubCategories)
        /\ \A i \in Rows(product.sub_profit) :
              product.sub_profit[i].TotalProfit
                 = GroupProfit(<<"SubCategory">>, product.sub_profit[i].key)
        /\ \A i, j \in Rows(product.sub_profit) :
              i < j => product.sub_profit[i].TotalProfit >= product.sub_profit[j].TotalProfit
        /\ product.top_sub
              = SubSeq(product.sub_profit, 1, Smaller(10, Cardinality(SubCategories)))
        /\ \A i \in Rows(product.top_sub) :
              \A j \in Rows(product.sub_profit) :
                  (\A h \in Rows(product.top_sub) :
                       product.top_sub[h].key # product.sub_profit[j].key)
                  => product.sub_profit[j].TotalProfit <= product.top_sub[i].TotalProfit

\* C7 witness: more than 10 subcategories, 10 of them in top_sub, and profits
\* that differ between the first and the last row of the ranking
C7_Witness ==
    /\ Ran
    /\ Cardinality(SubCategories) > 10
    /\ Len(product.top_sub) = 10
    /\ product.sub_profit[1].TotalProfit
          > product.sub_profit[Len(product.sub_profit)].TotalProfit

\* C9: once load_data has returned the enriched dataset, every later run
\* gets the same dataset: the cache entry never changes, whatever the
\* selections, the pages and the file on disk do.
C9_LoadedOnce ==
    /\ [][Ran => (data' = data /\ cache' = cache)]_vars
    /\ [](Ran => cache = <<data>>)

\* C9 witness: the file on disk was cut down after the load, and the dataset
\* of the last run is still the one loaded first
C9_Witness ==
    /\ Ran
    /\ Len(csv) < Len(data)
    /\ filtered # <<>>

====
